---- MODULE Spec2Model ----
(***************************************************************************)
(* Model of rank.py: an Elo ranking session over a list of items.          *)
(*                                                                         *)
(* An EloItem is a record [name, _rating].  Items are objects held in the  *)
(* list `items`; an item is identified by its position in that list until  *)
(* the final sort.                                                         *)
(*                                                                         *)
(* Floating point.  expected_score returns a float and update_rating       *)
(* rounds k * (1 - e) or k * (0 - e) with Python's round().  The rounded   *)
(* change depends only on k and on d = opponent.rating - self.rating and   *)
(* is a monotone step function of d.  Thr32 and Thr40 list the steps: they *)
(* were tabulated by running EloItem.update_rating for every d in          *)
(* -20000..20000 (beyond +-760 the change is constant; 10 ** x overflows   *)
(* only for |d| > 123200, which no rating of this model reaches).          *)
(***************************************************************************)
EXTENDS Integers, Sequences, FiniteSets, TLC

VARIABLES
    pc,        \* position of main(): START, AWAITING_CHOICE, DONE, SAVED, RANKED, EXIT, ValueError; UNIT in the unit specification
    command,   \* args.command
    input,     \* content of the file read at start: lines ("new") or dicts ("load")
    items,     \* the list `items` of EloItem objects
    rankinfo,  \* the file rankinfo_<base>.json as written by this session
    ranking,   \* the lines display_results wrote to its buffer
    results,   \* the file results_<base>.txt as written by this session
    reads,     \* number of decisions read by input() at line 143
    updates,   \* number of calls of update_elo_ratings
    match,     \* positions <<item_1, item_2>> of the last matchup returned by get_matchup
    choice,    \* the last decision read at line 143
    prev,      \* `items` as it was before the last call that may change a rating
    log        \* calls made by the unit specification

vars == <<pc, command, input, items, rankinfo, ranking, results, reads,
          updates, match, choice, prev, log>>

----------------------------------------------------------------------------
(* Bounds *)

MaxItems == 3

MaxSteps == 2

MaxCalls == 2

(* Program constants *)

DefaultRating == 1500

DefaultK == 40

Names == {"A", "B"}

Inputs == {"1", "2", "q"}

Answers == {"y", "Y", "n"}

UnitRatings == {700, 1100, 1484, 1500, 1516, 2300}

Ks == {32, DefaultK}

NoFile == [exists |-> FALSE, content |-> <<>>]

File(c) == [exists |-> TRUE, content |-> c]

SeqsUpTo(S, n) == UNION {[1..m -> S] : m \in 0..n}

TextFiles == SeqsUpTo(Names, MaxItems)

\* Records a rankinfo file can hold: ratings 820 apart, so that updates that
\* round to no change happen, next to the equal ratings of a "new" session.
Dicts == {[name |-> "A", rating |-> 1520], [name |-> "B", rating |-> 700]}

RankFiles == SeqsUpTo(Dicts, MaxItems)

----------------------------------------------------------------------------
(* class EloItem *)

EloItem(name, rating) == [name |-> name, _rating |-> rating]

\* from_dict without line 60: the rating of the record is not restored.
from_dict_no_rating(dict_item) == EloItem(dict_item.name, DefaultRating)

from_dict(dict_item) ==
    LET new_item == EloItem(dict_item.name, DefaultRating)
    IN  [new_item EXCEPT !._rating = dict_item.rating]

\* to_json writing the default rating instead of the item's.
to_json_default_rating(self) == [name |-> self.name, rating |-> DefaultRating]

to_json(self) == [name |-> self.name, rating |-> self._rating]

Thr32 ==
    << -719, -523, -428, -364, -314, -273, -237, -205, -176, -149, -124,
       -100, -77, -54, -32, -10, 11, 33, 55, 78, 101, 125, 150, 177, 206,
       238, 274, 315, 365, 429, 524, 720 >>

Thr40 ==
    << -759, -563, -470, -407, -358, -318, -284, -254, -227, -202, -179,
       -157, -136, -117, -98, -79, -61, -43, -26, -8, 9, 27, 44, 62, 80, 99,
       118, 137, 158, 180, 203, 228, 255, 285, 319, 359, 408, 471, 564, 760 >>

Thr(k) == IF k = 32 THEN Thr32 ELSE Thr40

\* round(k * (1 - e)), e the expected score of an item whose opponent is
\* rated d points above it: the number of steps at or below d.
WinChange(k, d) == Cardinality({v \in 1..k : d >= Thr(k)[v]})

\* The loss branch with the sign of line 97 lost: round(k * e).
LossChange_positive(k, d) == Cardinality({v \in 1..k : d <= 0 - Thr(k)[v]})

\* round(k * (0 - e)) for the same e.
LossChange(k, d) == 0 - Cardinality({v \in 1..k : d <= 0 - Thr(k)[v]})

\* The rating change update_rating computes (lines 92-97).
rating_change(self, opponent, did_win, k) ==
    LET d == opponent._rating - self._rating
    IN  IF did_win THEN WinChange(k, d) ELSE LossChange(k, d)

update_rating(self, opponent, did_win, k) ==
    [self EXCEPT !._rating = self._rating + rating_change(self, opponent, did_win, k)]

----------------------------------------------------------------------------
(* Module functions *)

\* update_elo_ratings computing both changes from the ratings before the call.
update_elo_ratings_snapshot(its, w, l) ==
    [its EXCEPT ![w] = update_rating(its[w], its[l], TRUE, DefaultK),
                ![l] = update_rating(its[l], its[w], FALSE, DefaultK)]

\* update_elo_ratings making every item other than the winner lose to it.
update_elo_ratings_all_lose(its, w, l) ==
    LET after_winner == [its EXCEPT ![w] = update_rating(its[w], its[l], TRUE, DefaultK)]
    IN  [i \in 1..Len(its) |->
            IF i = w THEN after_winner[w]
            ELSE update_rating(its[i], after_winner[w], FALSE, DefaultK)]

\* The list after update_elo_ratings(its[w], its[l]): the winner is updated
\* first, the loser is then updated against the updated winner object.
update_elo_ratings(its, w, l) ==
    LET after_winner == [its EXCEPT ![w] = update_rating(its[w], its[l], TRUE, DefaultK)]
    IN  [after_winner EXCEPT
            ![l] = update_rating(after_winner[l], after_winner[w], FALSE, DefaultK)]

\* Lines 145-150 with the second branch assigning as the first.
winner_loser_same(m, c) == <<m[1], m[2]>>

\* Lines 145-150: the positions <<winner, loser>> for a matchup m and a
\* preference c.
winner_loser(m, c) ==
    IF c = "1" THEN <<m[1], m[2]>> ELSE <<m[2], m[1]>>

\* Two independent draws (sampling with replacement).
get_matchup_with_replacement(its) == (1..Len(its)) \X (1..Len(its))

\* A second draw that may repeat the first.
get_matchup_may_repeat(its) ==
    {m \in (1..Len(its)) \X (1..Len(its)) : Len(its) >= 2 /\ m[1] <= m[2]}

\* The results random.sample(its, 2) can return, as pairs of positions;
\* empty when the sample is larger than the population (ValueError).
get_matchup(its) ==
    {m \in (1..Len(its)) \X (1..Len(its)) : m[1] # m[2]}

\* list.sort(key=rating, reverse=True): stable, descending.
InsertByRating(sorted, x) ==
    LET p == Cardinality({i \in 1..Len(sorted) : sorted[i]._rating >= x._rating})
    IN  SubSeq(sorted, 1, p) \o <<x>> \o SubSeq(sorted, p + 1, Len(sorted))

RECURSIVE sort_by_rating(_)
sort_by_rating(its) ==
    IF its = <<>> THEN <<>>
    ELSE InsertByRating(sort_by_rating(SubSeq(its, 1, Len(its) - 1)), its[Len(its)])

\* Ranks that advance by one at each new rating (dense ranks).
RECURSIVE rank_of_dense(_, _)
rank_of_dense(sorted_items, i) ==
    IF i = 1 THEN 1
    ELSE IF sorted_items[i - 1]._rating = sorted_items[i]._rating
         THEN rank_of_dense(sorted_items, i - 1)
         ELSE rank_of_dense(sorted_items, i - 1) + 1

\* The rank display_results gives position i of sorted_items (lines 184-194).
RECURSIVE rank_of(_, _)
rank_of(sorted_items, i) ==
    IF i > 1 /\ sorted_items[i - 1]._rating = sorted_items[i]._rating
    THEN rank_of(sorted_items, i - 1)
    ELSE i

display_results(sorted_items) ==
    [i \in 1..Len(sorted_items) |->
        [rank   |-> rank_of(sorted_items, i),
         name   |-> sorted_items[i].name,
         rating |-> sorted_items[i]._rating]]

lower(s) == IF s = "Y" THEN "y" ELSE s

----------------------------------------------------------------------------
(* The session: main() *)

Init ==
    /\ pc = "START"
    /\ command = "none"
    /\ input = <<>>
    /\ items = <<>>
    /\ rankinfo = NoFile
    /\ ranking = <<>>
    /\ results = NoFile
    /\ reads = 0
    /\ updates = 0
    /\ match = <<>>
    /\ choice = ""
    /\ prev = <<>>
    /\ log = <<>>

\* Lines 250-253.
NewCommand ==
    /\ pc = "START"
    /\ \E lines \in TextFiles :
        /\ input' = lines
        /\ items' = [i \in 1..Len(lines) |-> EloItem(lines[i], DefaultRating)]
    /\ command' = "new"
    /\ pc' = "AWAITING_CHOICE"
    /\ UNCHANGED <<rankinfo, ranking, results, reads, updates, match, choice, prev, log>>

\* Lines 254-259.
LoadCommand ==
    /\ pc = "START"
    /\ \E item_dicts \in RankFiles :
        /\ input' = item_dicts
        /\ items' = [i \in 1..Len(item_dicts) |-> from_dict(item_dicts[i])]
    /\ command' = "load"
    /\ pc' = "AWAITING_CHOICE"
    /\ UNCHANGED <<rankinfo, ranking, results, reads, updates, match, choice, prev, log>>

\* One iteration of the loop at line 261: present_matchup_and_update(items).
PresentMatchupAndUpdate ==
    /\ pc = "AWAITING_CHOICE"
    /\ IF get_matchup(items) = {}
       THEN /\ pc' = "ValueError"
            /\ UNCHANGED <<items, reads, updates, match, choice, prev>>
       ELSE \E m \in get_matchup(items), c \in Inputs :
            /\ c \in {"1", "2"} => updates < MaxSteps
            /\ match' = m
            /\ reads' = reads + 1
            /\ choice' = c
            /\ prev' = items
            /\ IF c \in {"1", "2"}
               THEN /\ items' = update_elo_ratings(items, winner_loser(m, c)[1],
                                                    winner_loser(m, c)[2])
                    /\ updates' = updates + 1
                    /\ pc' = "AWAITING_CHOICE"
               ELSE /\ pc' = "DONE"
                    /\ UNCHANGED <<items, updates>>
    /\ UNCHANGED <<command, input, rankinfo, ranking, results, log>>

\* Lines 265-269.
SaveRankinfo ==
    /\ pc = "DONE"
    /\ rankinfo' = File([i \in 1..Len(items) |-> to_json(items[i])])
    /\ pc' = "SAVED"
    /\ UNCHANGED <<command, input, items, ranking, results, reads, updates, match, choice, prev, log>>

\* Lines 272-273 up to the prompt at line 198.
SortAndDisplay ==
    /\ pc = "SAVED"
    /\ items' = sort_by_rating(items)
    /\ ranking' = display_results(items')
    /\ pc' = "RANKED"
    /\ UNCHANGED <<command, input, rankinfo, results, reads, updates, match, choice, prev, log>>

\* Lines 198-201.
SaveResultsPrompt ==
    /\ pc = "RANKED"
    /\ \E save_to_file \in Answers :
        results' = IF lower(save_to_file) = "y" THEN File(ranking) ELSE results
    /\ pc' = "EXIT"
    /\ UNCHANGED <<command, input, items, rankinfo, ranking, reads, updates, match, choice, prev, log>>

Next ==
    \/ NewCommand
    \/ LoadCommand
    \/ PresentMatchupAndUpdate
    \/ SaveRankinfo
    \/ SortAndDisplay
    \/ SaveResultsPrompt

Spec == Init /\ [][Next]_vars

----------------------------------------------------------------------------
(* The rating methods called directly on a pair of items *)

UnitDicts == [name : {"A"}, rating : UnitRatings]

InitU ==
    /\ pc = "UNIT"
    /\ command = "none"
    /\ input \in [1..2 -> UnitDicts]
    /\ items = [i \in 1..2 |-> from_dict(input[i])]
    /\ rankinfo = NoFile
    /\ ranking = <<>>
    /\ results = NoFile
    /\ reads = 0
    /\ updates = 0
    /\ match = <<>>
    /\ choice = ""
    /\ prev = items
    /\ log = <<>>

Call(fn, self, did_win, k) == [fn |-> fn, self |-> self, did_win |-> did_win, k |-> k]

\* items[self].update_rating(items[3 - self], did_win, k)
CallUpdateRating ==
    /\ pc = "UNIT"
    /\ Len(log) < MaxCalls
    /\ \E self \in 1..2, did_win \in BOOLEAN, k \in Ks :
        /\ items' = [items EXCEPT ![self] = update_rating(items[self], items[3 - self], did_win, k)]
        /\ log' = Append(log, Call("update_rating", self, did_win, k))
    /\ prev' = items
    /\ UNCHANGED <<pc, command, input, rankinfo, ranking, results, reads, updates, match, choice>>

\* update_elo_ratings(items[winner], items[3 - winner])
CallUpdateEloRatings ==
    /\ pc = "UNIT"
    /\ Len(log) < MaxCalls
    /\ \E winner \in 1..2 :
        /\ items' = update_elo_ratings(items, winner, 3 - winner)
        /\ log' = Append(log, Call("update_elo_ratings", winner, TRUE, DefaultK))
    /\ prev' = items
    /\ UNCHANGED <<pc, command, input, rankinfo, ranking, results, reads, updates, match, choice>>

NextU ==
    \/ CallUpdateRating
    \/ CallUpdateEloRatings

SpecU == InitU /\ [][NextU]_vars

----------------------------------------------------------------------------
(* Properties *)

AfterLoop == {"DONE", "SAVED", "RANKED", "EXIT"}

Preference == {"1", "2"}

\* Position of the item the decision c prefers in matchup m, and of the other.
Chosen(m, c) == IF c = "1" THEN m[1] ELSE m[2]

NotChosen(m, c) == IF c = "1" THEN m[2] ELSE m[1]

\* The (name, rating) pairs the input file stands for.
LoadedName(i) == IF command = "new" THEN input[i] ELSE input[i].name

LoadedRating(i) == IF command = "new" THEN 1500 ELSE input[i].rating

Pairs(its) == [i \in 1..Len(its) |-> <<its[i].name, its[i]._rating>>]

Count(s, x) == Cardinality({i \in 1..Len(s) : s[i] = x})

SameItems(s, t) ==
    /\ Len(s) = Len(t)
    /\ \A i \in 1..Len(s) : Count(s, s[i]) = Count(t, s[i])

\* C1 - Session loop conformance.  A decision is read only in
\* AWAITING_CHOICE.  A decision "1" or "2" makes exactly one rating update,
\* in which the chosen item gets the winner's change against the other
\* matched item and that other item does not gain, and the session stays in
\* AWAITING_CHOICE; any other decision moves the session to DONE with no
\* update and no item changed.  After the loop no decision is read, no
\* matchup is drawn, no update is made, no rating changes and the session
\* never awaits a choice again.
C1_Step ==
    reads' # reads =>
        /\ pc = "AWAITING_CHOICE"
        /\ reads' = reads + 1
        /\ IF choice' \in Preference
           THEN LET w == Chosen(match', choice')
                    l == NotChosen(match', choice')
                IN  /\ pc' = "AWAITING_CHOICE"
                    /\ updates' = updates + 1
                    /\ items'[w]._rating = items[w]._rating
                          + WinChange(40, items[l]._rating - items[w]._rating)
                    /\ items'[l]._rating <= items[l]._rating
                    /\ \A i \in 1..Len(items) : i \notin {w, l} => items'[i] = items[i]
           ELSE /\ pc' = "DONE"
                /\ updates' = updates
                /\ items' = items

C1_Done ==
    pc \in AfterLoop =>
        /\ pc' \in AfterLoop
        /\ reads' = reads
        /\ updates' = updates
        /\ match' = match
        /\ SameItems(items', items)

C1_SessionLoop == [][C1_Step /\ C1_Done /\ (updates' # updates => reads' # reads)]_vars

C1_Witness ==
    /\ pc = "EXIT"
    /\ updates = 2
    /\ reads = 3

\* C2 - Two items rated 1500; the winner's update_rating(loser, True, 32)
\* followed by the loser's update_rating(winner, False, 32), the order of
\* update_elo_ratings, leaves the winner at 1516 and the loser at 1484.
C2_Equal1500K32 ==
    \A w \in 1..2 :
        ( /\ pc = "UNIT"
          /\ input[1].rating = 1500
          /\ input[2].rating = 1500
          /\ log = <<Call("update_rating", w, TRUE, 32),
                     Call("update_rating", 3 - w, FALSE, 32)>> )
        => /\ items[w]._rating = 1516
           /\ items[3 - w]._rating = 1484

\* C3 - After every rating update the winner's rating is at least what it
\* was before and the loser's at most what it was before: the rating of the
\* chosen item did not fall and the rating of the other matched item did not
\* rise.
C3_WinnerUpLoserDown ==
    (pc = "AWAITING_CHOICE" /\ choice \in Preference) =>
        /\ items[Chosen(match, choice)]._rating >= prev[Chosen(match, choice)]._rating
        /\ items[NotChosen(match, choice)]._rating <= prev[NotChosen(match, choice)]._rating

C3_Witness ==
    /\ pc = "AWAITING_CHOICE"
    /\ choice \in Preference
    /\ updates = 2
    /\ items[Chosen(match, choice)]._rating > prev[Chosen(match, choice)]._rating
    /\ items[NotChosen(match, choice)]._rating < prev[NotChosen(match, choice)]._rating
    /\ \E i \in 1..Len(items) : items[i]._rating < LoadedRating(i)
    /\ Len(items) = 3

\* C4 - With fewer than two items the session fails with the sampling error
\* at its first matchup: the only step from AWAITING_CHOICE is to the error,
\* no decision is ever read, no rating is changed, and neither the rankinfo
\* file nor the ranking is ever produced.
C4_State ==
    (pc # "START" /\ Len(input) < 2) =>
        /\ pc \in {"AWAITING_CHOICE", "ValueError"}
        /\ reads = 0
        /\ updates = 0
        /\ match = <<>>
        /\ Len(items) = Len(input)
        /\ \A i \in 1..Len(items) : items[i]._rating = LoadedRating(i)
        /\ rankinfo = NoFile
        /\ ranking = <<>>
        /\ results = NoFile

C4_Step ==
    (pc = "AWAITING_CHOICE" /\ Len(items) < 2) => pc' = "ValueError"

C4_InsufficientItems == [](C4_State) /\ [][C4_Step]_vars

C4_Witness ==
    /\ pc = "ValueError"
    /\ Len(items) = 1

\* C5 - Every matchup drawn from a collection of at least two items names
\* two different positions of the collection; on a collection of exactly two
\* items these are both items.
C5_DistinctMatchup ==
    (pc \in {"AWAITING_CHOICE", "DONE"} /\ reads > 0) =>
        /\ Len(match) = 2
        /\ match[1] \in 1..Len(items)
        /\ match[2] \in 1..Len(items)
        /\ match[1] # match[2]
        /\ (Len(items) = 2 => {match[1], match[2]} = {1, 2})

C5_Witness ==
    /\ pc = "AWAITING_CHOICE"
    /\ Len(items) = 2
    /\ match = <<2, 1>>

\* C6 - When the first decision is a stop, every item keeps its loaded
\* rating (1500 in a "new" session, the rating of its record in a "load"
\* session) to the end, and the rankinfo file holds the loaded names and
\* ratings in order.
C6_ImmediateStop ==
    (pc \in AfterLoop /\ updates = 0) =>
        /\ reads = 1
        /\ Len(items) = Len(input)
        /\ pc \in {"DONE", "SAVED"} =>
              \A i \in 1..Len(items) :
                  /\ items[i].name = LoadedName(i)
                  /\ items[i]._rating = LoadedRating(i)
        /\ \A i \in 1..Len(items) :
              Count(Pairs(items), <<LoadedName(i), LoadedRating(i)>>)
                  = Cardinality({j \in 1..Len(input) :
                        <<LoadedName(j), LoadedRating(j)>> = <<LoadedName(i), LoadedRating(i)>>})
        /\ pc # "DONE" =>
              /\ rankinfo.exists
              /\ Len(rankinfo.content) = Len(input)
              /\ \A i \in 1..Len(input) :
                    /\ rankinfo.content[i].name = LoadedName(i)
                    /\ rankinfo.content[i].rating = LoadedRating(i)

C6_Witness ==
    /\ pc = "EXIT"
    /\ updates = 0
    /\ command = "load"
    /\ Len(items) = 3
    /\ \E i, j \in 1..3 : input[i].rating # input[j].rating

\* C7 - Once ranked, the items are the items the loop ended with, ordered by
\* rating from highest to lowest, and the rank displayed for each is 1 plus
\* the number of items with a strictly higher rating.
C7_Ranking ==
    pc \in {"RANKED", "EXIT"} =>
        /\ SameItems(items, prev)
        /\ \A i, j \in 1..Len(items) : i < j => items[i]._rating >= items[j]._rating
        /\ Len(ranking) = Len(items)
        /\ \A i \in 1..Len(items) :
              /\ ranking[i].name = items[i].name
              /\ ranking[i].rating = items[i]._rating
              /\ ranking[i].rank =
                    1 + Cardinality({j \in 1..Len(items) : items[j]._rating > items[i]._rating})

C7_Witness ==
    /\ pc = "RANKED"
    /\ updates > 0
    /\ Len(ranking) = 3
    /\ ranking[1].rank = 1
    /\ ranking[2].rank = 1
    /\ ranking[3].rank = 3
    /\ items # prev

\* C8 - Reading the written rankinfo file back with from_dict gives the
\* (name, rating) pairs, in order, of the collection as the loop left it.
C8_RoundTrip ==
    pc \in {"SAVED", "RANKED", "EXIT"} =>
        /\ rankinfo.exists
        /\ Pairs([i \in 1..Len(rankinfo.content) |-> from_dict(rankinfo.content[i])])
              = Pairs(prev)
        /\ pc = "SAVED" => prev = items

C8_Witness ==
    /\ pc = "RANKED"
    /\ updates = 2
    /\ items # prev
    /\ \E i \in 1..Len(prev) : prev[i]._rating # LoadedRating(i)

\* C9 - Until the final sort the collection has as many items as were
\* loaded, with the loaded names at the loaded positions, and a preference
\* step leaves every item other than the two matched ones as it was.
C9_FixedCollection ==
    pc \in {"AWAITING_CHOICE", "ValueError", "DONE", "SAVED"} =>
        /\ Len(items) = Len(input)
        /\ \A i \in 1..Len(items) : items[i].name = LoadedName(i)
        /\ reads > 0 =>
              /\ Len(prev) = Len(items)
              /\ \A i \in 1..Len(items) :
                    i \notin {match[1], match[2]} => items[i] = prev[i]

C9_Witness ==
    /\ pc = "AWAITING_CHOICE"
    /\ updates = 2
    /\ Len(items) = 3
    /\ \E i \in 1..3 :
          /\ i \notin {match[1], match[2]}
          /\ items[i]._rating # LoadedRating(i)
    /\ items[match[1]] # prev[match[1]]
    /\ items[match[2]] # prev[match[2]]

\* C10 - In update_elo_ratings the winner's change is computed from the two
\* ratings before the call, and the loser's change from the loser's rating
\* before the call against the winner's rating after its change.
LastCall == log[Len(log)]

C10_SequentialUpdate ==
    (pc = "UNIT" /\ log # <<>> /\ LastCall.fn = "update_elo_ratings") =>
        LET w == LastCall.self
            l == 3 - LastCall.self
        IN  /\ items[w]._rating = prev[w]._rating
                  + rating_change(prev[w], prev[l], TRUE, 40)
            /\ items[l]._rating = prev[l]._rating
                  + rating_change(prev[l], items[w], FALSE, 40)

\* The loser's change differs from the one taken on the ratings before the
\* call, and updating the loser first would have left other ratings.
C10_Witness ==
    /\ pc = "UNIT"
    /\ log # <<>>
    /\ LastCall.fn = "update_elo_ratings"
    /\ LET w == LastCall.self
           l == 3 - LastCall.self
           loser_first == [prev EXCEPT ![l] = update_rating(prev[l], prev[w], FALSE, 40)]
           opposite == [loser_first EXCEPT ![w] = update_rating(prev[w], loser_first[l], TRUE, 40)]
       IN  /\ items[l]._rating # prev[l]._rating + rating_change(prev[l], prev[w], FALSE, 40)
           /\ items # opposite
           /\ prev[w]._rating = prev[l]._rating

====
